---- MODULE Spec2Model ----
(***************************************************************************)
(* CosStoreProvider::new_store (rust/lance-io/src/object_store/providers/  *)
(* cos.rs): resolution of the COS configuration map from the process       *)
(* environment, the store URL and the caller's storage options.            *)
(*                                                                         *)
(* Strings are TLA+ strings; the Rust string methods the provider uses are *)
(* computed character by character with Len, SubSeq and \o.                *)
(***************************************************************************)
EXTENDS Naturals, Sequences, FiniteSets, TLC

\* env:    the process environment, variable name -> value
\* last:   the most recent new_store call (its arguments and what it
\*         produced), <<>> before the first call
\* before: the error of the call that preceded it with the same URL and
\*         storage options ({} when there was none, {""} when it returned Ok)
VARIABLES env, last, before

vars == <<env, last, before>>

----------------------------------------------------------------------------
(* Bounds of the model. *)

\* the largest number of variables in the process environment
MaxEnvVars == 2

----------------------------------------------------------------------------
(* Rust string methods used by new_store. *)

UpperChars == "ABCDEFGHIJKLMNOPQRSTUVWXYZ"

LowerChars == "abcdefghijklmnopqrstuvwxyz"

\* char::to_lowercase on one character (ASCII letters; others unchanged)
lower_char(c) ==
    IF \E i \in 1..Len(UpperChars) : SubSeq(UpperChars, i, i) = c
    THEN LET i == CHOOSE j \in 1..Len(UpperChars) : SubSeq(UpperChars, j, j) = c
         IN  SubSeq(LowerChars, i, i)
    ELSE c

RECURSIVE to_lowercase(_)
\* str::to_lowercase
to_lowercase(s) ==
    IF s = "" THEN ""
    ELSE lower_char(SubSeq(s, 1, 1)) \o to_lowercase(SubSeq(s, 2, Len(s)))

\* str::starts_with
starts_with(s, pat) ==
    Len(s) >= Len(pat) /\ SubSeq(s, 1, Len(pat)) = pat

\* str::ends_with
ends_with(s, pat) ==
    Len(s) >= Len(pat) /\ SubSeq(s, Len(s) - Len(pat) + 1, Len(s)) = pat

RECURSIVE replace(_, _, _)
\* str::replace: every non-overlapping match of a non-empty pattern, found
\* left to right, is replaced
replace(s, from, to) ==
    IF s = "" THEN ""
    ELSE IF starts_with(s, from)
         THEN to \o replace(SubSeq(s, Len(from) + 1, Len(s)), from, to)
         ELSE SubSeq(s, 1, 1) \o replace(SubSeq(s, 2, Len(s)), from, to)

RECURSIVE trim_start_matches(_, _)
\* str::trim_start_matches: the pattern is removed from the start repeatedly
trim_start_matches(s, pat) ==
    IF starts_with(s, pat) /\ pat # ""
    THEN trim_start_matches(SubSeq(s, Len(pat) + 1, Len(s)), pat)
    ELSE s

\* str::contains
contains(s, pat) ==
    \E i \in 1..(Len(s) + 1) : starts_with(SubSeq(s, i, Len(s)), pat)

----------------------------------------------------------------------------
(* HashMap<String, String> as a function from its keys to their values. *)

EmptyMap == [k \in {} |-> ""]

\* HashMap::insert: the new value replaces an older one under the same key
insert(m, k, v) ==
    [x \in (DOMAIN m) \cup {k} |-> IF x = k THEN v ELSE m[x]]

\* HashMap::contains_key
contains_key(m, k) == k \in DOMAIN m

RECURSIVE collect(_)
\* Iterator::collect into a HashMap: the pairs are inserted in iteration
\* order, so the last pair with a given key wins
collect(pairs) ==
    IF pairs = <<>> THEN EmptyMap
    ELSE LET n == Len(pairs)
         IN  insert(collect(SubSeq(pairs, 1, n - 1)), pairs[n][1], pairs[n][2])

----------------------------------------------------------------------------
(* Inputs. *)

\* names of environment variables
EnvNames ==
    { "COS_ENDPOINT", "TENCENTCLOUD_ENDPOINT", "COS_SECRET_ID",
      "TENCENTCLOUD_SECRET_KEY", "COS_ENABLE_VERSIONING", "COS_BUCKET",
      "COS_ROOT", "COS_DISABLE_CONFIG_LOAD", "COS_COS_ENDPOINT",
      "MYCOS_ENDPOINT" }

\* the value a variable has when it is set; no two variables share a value,
\* and none has the value of a storage option
EnvValue(k) ==
    CASE k = "COS_ENDPOINT" -> "https://env.example"
      [] k = "TENCENTCLOUD_ENDPOINT" -> "https://tencent.example"
      [] k = "COS_SECRET_ID" -> "env-id"
      [] k = "TENCENTCLOUD_SECRET_KEY" -> "env-key"
      [] k = "COS_ENABLE_VERSIONING" -> "false"
      [] k = "COS_BUCKET" -> "env-bucket"
      [] k = "COS_ROOT" -> "/env-root"
      [] k = "COS_DISABLE_CONFIG_LOAD" -> "true"
      [] k = "COS_COS_ENDPOINT" -> "https://cos-cos.example"
      [] OTHER -> "https://other.example"

\* the variables the rest of the process sets and removes between calls
MutableNames == { "COS_ENDPOINT", "TENCENTCLOUD_ENDPOINT", "MYCOS_ENDPOINT" }

\* environments of at most MaxEnvVars variables
Envs ==
    { [k \in S |-> EnvValue(k)] :
      S \in { T \in SUBSET EnvNames : Cardinality(T) <= MaxEnvVars } }

\* keys of the caller's storage options: the four new_store reads, and one
\* it does not
OptionKeys ==
    { "cos_endpoint", "cos_secret_id", "cos_secret_key",
      "cos_enable_versioning", "cos_disable_config_load" }

\* the value the caller gives an option
OptionValue(k) ==
    IF k = "cos_endpoint" THEN "https://x.example"
    ELSE IF k \in {"cos_enable_versioning", "cos_disable_config_load"}
         THEN "yes"
         ELSE "opt-secret"

\* params.storage_options(): every map over a subset of OptionKeys
StorageOptions ==
    { [k \in S |-> OptionValue(k)] : S \in SUBSET OptionKeys }

\* A parsed Url: its authority ({} when the URL has none, as in cos:/p, else
\* {text between "//" and the path}) and its path.
Url(authority, path) == [authority |-> authority, path |-> path]

Urls ==
    { Url({}, "/p"),                            \* cos:/p
      Url({""}, "/p"),                          \* cos:///p
      Url({"bucket"}, ""),                      \* cos://bucket
      Url({"bucket"}, "/"),                     \* cos://bucket/
      Url({"bucket"}, "/path/to/file"),         \* cos://bucket/path/to/file
      Url({"my-bucket"}, "/path/to/file"),      \* cos://my-bucket/path/to/file
      Url({"my-bucket"}, "/dir/") }             \* cos://my-bucket/dir/

\* the calls repeated while the environment changes
RepeatedUrls == { Url({""}, "/p"), Url({"my-bucket"}, "/path/to/file") }

RepeatedOptions ==
    { so \in StorageOptions : DOMAIN so \subseteq {"cos_endpoint"} }

\* the orders in which the variables of a set can be iterated
Orders(S) ==
    { o \in [1..Cardinality(S) -> S] :
        \A i, j \in 1..Cardinality(S) : o[i] = o[j] => i = j }

----------------------------------------------------------------------------
(* CosStoreProvider::new_store. *)

\* the message of the error for a URL without a bucket
MissingBucket == "COS URL must contain bucket name"

\* the message of the error for a configuration without an endpoint
MissingEndpoint ==
    "COS endpoint is required. Please provide 'cos_endpoint' in storage options or set COS_ENDPOINT environment variable"

\* the message of the error for a configuration the transport factory
\* rejects (the factory's own diagnostic follows it)
OperatorFailed == "Failed to create COS operator"

\* a host that defaults to "" when the URL has none
host_str_or_default(url) ==
    IF url.authority = {} THEN {""} ELSE url.authority

\* Url::host_str: None ({}) for a URL without authority and for one whose
\* host is empty, else Some(host)
host_str(url) == { h \in url.authority : h # "" }

\* Url::set_path on a URL that has a host: the path starts with "/"
set_path(path) == IF starts_with(path, "/") THEN path ELSE "/" \o path

\* the pairs read by the previous call, kept instead of read afresh
env_vars_cached(e, o) ==
    IF last # <<>> THEN last[1].env_seen
    ELSE [i \in 1..Len(o) |-> <<o[i], e[o[i]]>>]

\* std::env::vars(): the (name, value) pairs of the environment e, iterated
\* in the order o
env_vars(e, o) == [i \in 1..Len(o) |-> <<o[i], e[o[i]]>>]

\* a filter that knows one prefix only
is_cos_name_one_prefix(k) == starts_with(k, "COS_")

\* the filter on a variable's name
is_cos_name(k) == starts_with(k, "COS_") \/ starts_with(k, "TENCENTCLOUD_")

\* the configuration key made from a variable's name
config_key_of(k) ==
    replace(replace(to_lowercase(k), "cos_", ""), "tencentcloud_", "")

\* both, computed once for each name
IsCosVar == [k \in EnvNames |-> is_cos_name(k)]

ConfigKey == [k \in EnvNames |-> config_key_of(k)]

RECURSIVE filter_map(_)
\* .filter(..).map(..) over the pairs, in order
filter_map(pairs) ==
    IF pairs = <<>> THEN <<>>
    ELSE LET k == pairs[1][1]
             v == pairs[1][2]
             rest == filter_map(Tail(pairs))
         IN  IF IsCosVar[k] THEN << <<ConfigKey[k], v>> >> \o rest ELSE rest

\* the configuration map made from the environment alone
env_config_map(pairs) == collect(filter_map(pairs))

\* a bucket that yields to one the environment set
with_bucket_or_env(m, bucket) ==
    IF contains_key(m, "bucket") THEN m ELSE insert(m, "bucket", bucket)

\* config_map.insert("bucket", bucket)
with_bucket(m, bucket) == insert(m, "bucket", bucket)

\* the path as it is, leading separator included
prefix_untrimmed(url) == url.path

\* the path without its leading separators
prefix_of(url) == trim_start_matches(url.path, "/")

\* a root that is the prefix itself
with_root_literal(m, prefix) ==
    IF prefix # "" THEN insert(m, "root", "/" \o prefix) ELSE m

\* if !prefix.is_empty() { config_map.insert("root", "/") }
with_root(m, prefix) == IF prefix # "" THEN insert(m, "root", "/") ELSE m

\* an override that yields to a value already in the map
with_option_or_env(m, storage_options, option, key) ==
    IF contains_key(storage_options, option) /\ ~contains_key(m, key)
    THEN insert(m, key, storage_options[option])
    ELSE m

\* if let Some(x) = storage_options.0.get(option) { config_map.insert(key, x) }
with_option(m, storage_options, option, key) ==
    IF contains_key(storage_options, option)
    THEN insert(m, key, storage_options[option])
    ELSE m

\* the four overrides from the storage options, in the order of the code
with_storage_options(m, storage_options) ==
    LET m1 == with_option(m, storage_options, "cos_endpoint", "endpoint")
        m2 == with_option(m1, storage_options, "cos_secret_id", "secret_id")
        m3 == with_option(m2, storage_options, "cos_secret_key", "secret_key")
    IN  with_option(m3, storage_options, "cos_enable_versioning",
                    "enable_versioning")

\* a flag that yields to one the environment set
with_config_load_or_env(m) ==
    IF contains_key(m, "disable_config_load") THEN m
    ELSE insert(m, "disable_config_load", "false")

\* config_map.insert("disable_config_load", "false")
with_config_load(m) == insert(m, "disable_config_load", "false")

\* the configuration map as it stands before the endpoint is checked
resolve_config_map(bucket, prefix, pairs, storage_options) ==
    with_config_load(
        with_storage_options(
            with_root(with_bucket(env_config_map(pairs), bucket), prefix),
            storage_options))

\* a separator appended whether or not the path ends with one
normalize_path_always(path) == set_path(path \o "/")

\* the path of the URL the store prefix is computed from
normalize_path(path) ==
    IF ~ends_with(path, "/") THEN set_path(path \o "/") ELSE path

\* ObjectStoreProvider::extract_path: the object key of a location
extract_path(url) ==
    IF starts_with(url.path, "/") THEN SubSeq(url.path, 2, Len(url.path))
    ELSE url.path

\* What a call leaves to observe: its arguments, the pairs it read from the
\* environment and the map it made of them, the error ("" for Ok), the
\* configuration map (built: it was assembled; handed: it reached the
\* transport factory), the prefix and the path of the output URL.
Outcome(url, storage_options, pairs, error, built, handed, m, path) ==
    [ url |-> url, storage_options |-> storage_options, env_seen |-> pairs,
      error |-> error, built |-> built, handed |-> handed,
      env_config |-> env_config_map(pairs),
      config_map |-> m, prefix |-> IF built THEN prefix_of(url) ELSE "",
      url_path |-> path ]

\* new_store(base_path, params) in the environment `pairs`; operator_ok is
\* whether Operator::from_iter::<Cos>(config_map) returns an operator
new_store(url, storage_options, pairs, operator_ok) ==
    IF host_str(url) = {}
    THEN \* the error is returned before the environment is read
         Outcome(url, storage_options, <<>>, MissingBucket,
                 FALSE, FALSE, EmptyMap, "")
    ELSE LET bucket == CHOOSE h \in host_str(url) : TRUE
             m == resolve_config_map(bucket, prefix_of(url), pairs,
                                     storage_options)
         IN  IF ~contains_key(m, "endpoint")
             THEN Outcome(url, storage_options, pairs, MissingEndpoint,
                          TRUE, FALSE, m, "")
             ELSE IF ~operator_ok
             THEN Outcome(url, storage_options, pairs, OperatorFailed,
                          TRUE, TRUE, m, "")
             ELSE Outcome(url, storage_options, pairs, "",
                          TRUE, TRUE, m, normalize_path(url.path))

----------------------------------------------------------------------------
(* The state machine. *)

\* any environment within the bound; no call made yet
Init ==
    /\ env \in Envs
    /\ last = <<>>
    /\ before = {}

\* a call of new_store
NewStore(url, storage_options, o, operator_ok) ==
    /\ last' = << new_store(url, storage_options, env_vars(env, o),
                            operator_ok) >>
    /\ before' = IF /\ last # <<>>
                    /\ last[1].url = url
                    /\ last[1].storage_options = storage_options
                 THEN {last[1].error}
                 ELSE {}
    /\ UNCHANGED env

\* the process sets a variable (std::env::set_var)
SetVar(k) ==
    /\ k \in DOMAIN env \/ Cardinality(DOMAIN env) < MaxEnvVars
    /\ env' = insert(env, k, EnvValue(k))
    /\ env' # env
    /\ UNCHANGED <<last, before>>

\* the process removes a variable (std::env::remove_var)
RemoveVar(k) ==
    /\ k \in DOMAIN env
    /\ env' = [x \in (DOMAIN env) \ {k} |-> env[x]]
    /\ UNCHANGED <<last, before>>

\* a call with a URL of U and storage options of O; the environment is
\* iterated in any order, and the transport factory answers either way
Call(U, O) ==
    \E url \in U, storage_options \in O,
       o \in Orders(DOMAIN env), operator_ok \in BOOLEAN :
        NewStore(url, storage_options, o, operator_ok)

\* new_store applied once to every URL and storage options, in every
\* environment
FirstCall == last = <<>> /\ Call(Urls, StorageOptions)

Next == FirstCall

Spec == Init /\ [][Next]_vars

\* calls repeated in an environment that starts empty and that the process
\* changes between them
InitEnv ==
    /\ env = EmptyMap
    /\ last = <<>>
    /\ before = {}

RepeatedCall == Call(RepeatedUrls, RepeatedOptions)

NextEnv ==
    \/ RepeatedCall
    \/ \E k \in MutableNames : SetVar(k)
    \/ \E k \in MutableNames : RemoveVar(k)

SpecEnv == InitEnv /\ [][NextEnv]_vars

----------------------------------------------------------------------------
(* Properties of new_store. *)

\* a call has been made
Called == last # <<>>

\* the names the most recent call read from the environment
NamesSeen == { last[1].env_seen[i][1] : i \in DOMAIN last[1].env_seen }

\* the URL of the most recent call has a non-empty host
HostGiven == \E h \in last[1].url.authority : h # ""

\* the keys a storage option can override
RecognizedKeys == { "endpoint", "secret_id", "secret_key", "enable_versioning" }

\* the storage option of a recognized key
OptionOf(key) == "cos_" \o key

\* the variables of a recognized key
VarsOf(key) ==
    CASE key = "endpoint" -> { "COS_ENDPOINT", "TENCENTCLOUD_ENDPOINT" }
      [] key = "secret_id" -> { "COS_SECRET_ID", "TENCENTCLOUD_SECRET_ID" }
      [] key = "secret_key" -> { "COS_SECRET_KEY", "TENCENTCLOUD_SECRET_KEY" }
      [] key = "enable_versioning" ->
             { "COS_ENABLE_VERSIONING", "TENCENTCLOUD_ENABLE_VERSIONING" }

\* a recognized key the most recent call got from the environment and from
\* the storage options
SetTwice(key) ==
    /\ VarsOf(key) \cap NamesSeen # {}
    /\ OptionOf(key) \in DOMAIN last[1].storage_options

\* C1: a recognized key (endpoint, secret_id, secret_key, enable_versioning)
\* set by an environment variable COS_<KEY> or TENCENTCLOUD_<KEY> and by the
\* storage option cos_<key> has the option's value in the configuration map.
C1_OptionOverridesEnv ==
    Called /\ last[1].built =>
        \A key \in RecognizedKeys :
            SetTwice(key) =>
                /\ contains_key(last[1].config_map, key)
                /\ last[1].config_map[key] =
                       last[1].storage_options[OptionOf(key)]

\* a map was handed to the factory with every recognized key the storage
\* options set also set by the environment, the endpoint among them
C1_Witness ==
    /\ Called
    /\ last[1].handed
    /\ SetTwice("endpoint")
    /\ \E key \in RecognizedKeys \ {"endpoint"} : SetTwice(key)

\* the variables of the model whose configuration key is "endpoint"
\* (COS_COS_ENDPOINT among them: new_store removes every "cos_" of a name)
EndpointVars == { "COS_ENDPOINT", "TENCENTCLOUD_ENDPOINT", "COS_COS_ENDPOINT" }

\* a source of the most recent call supplies an endpoint: the storage
\* options or the environment (the bucket and root entries never do)
EndpointSupplied ==
    \/ "cos_endpoint" \in DOMAIN last[1].storage_options
    \/ EndpointVars \cap NamesSeen # {}

\* C2 as stated: with a valid host, new_store fails with the endpoint error
\* (its message names 'cos_endpoint' and COS_ENDPOINT) when no source
\* supplies an endpoint, and construction succeeds when one does.
C2_SucceedsWithEndpoint ==
    Called /\ HostGiven =>
        /\ contains(MissingEndpoint, "'cos_endpoint'")
        /\ contains(MissingEndpoint, "COS_ENDPOINT")
        /\ ~EndpointSupplied => last[1].error = MissingEndpoint
        /\ EndpointSupplied => last[1].error = ""

\* C2 amended: with a valid host, new_store fails with the endpoint error
\* exactly when no source supplies an endpoint; when one does, the map is
\* handed to the transport factory, and construction succeeds unless the
\* factory rejects the map.
C2_EndpointRequired ==
    Called /\ HostGiven =>
        /\ contains(MissingEndpoint, "'cos_endpoint'")
        /\ contains(MissingEndpoint, "COS_ENDPOINT")
        /\ ~EndpointSupplied =>
               last[1].error = MissingEndpoint /\ ~last[1].handed
        /\ EndpointSupplied =>
               last[1].handed /\ last[1].error \in {"", OperatorFailed}

\* cos://my-bucket/path/to/file with no storage options in an empty
\* environment fails with the endpoint error
C2_Witness ==
    /\ Called
    /\ last[1].url = Url({"my-bucket"}, "/path/to/file")
    /\ DOMAIN last[1].storage_options = {}
    /\ last[1].env_seen = <<>>
    /\ last[1].error = MissingEndpoint

\* C3: for a URL with a non-empty host the configuration map is built and
\* its "bucket" is the host, whatever the environment and the options.
C3_BucketIsHost ==
    Called /\ HostGiven =>
        /\ last[1].built
        /\ contains_key(last[1].config_map, "bucket")
        /\ last[1].url.authority = { last[1].config_map["bucket"] }

\* a map was built in an environment that sets COS_BUCKET
C3_Witness ==
    /\ Called
    /\ last[1].built
    /\ "COS_BUCKET" \in NamesSeen
    /\ last[1].env_config["bucket"] = EnvValue("COS_BUCKET")

\* the path of the most recent call's URL, trimmed of its leading
\* separators, is empty
PathTrimmedEmpty == trim_start_matches(last[1].url.path, "/") = ""

\* the variables of the model whose configuration key is "root"
RootVars == { "COS_ROOT" }

\* C4 as stated: the configuration map has a "root" key if and only if the
\* trimmed path is non-empty, and then its value is "/".
C4_RootIffPath ==
    Called /\ last[1].built =>
        /\ contains_key(last[1].config_map, "root") <=> ~PathTrimmedEmpty
        /\ ~PathTrimmedEmpty => last[1].config_map["root"] = "/"

\* C4 amended: with a non-empty trimmed path the map has "root" = "/"; with
\* an empty one it has a "root" key only if the environment gives one, with
\* the value of that variable.
C4_RootFromPathOrEnv ==
    Called /\ last[1].built =>
        /\ ~PathTrimmedEmpty =>
               /\ contains_key(last[1].config_map, "root")
               /\ last[1].config_map["root"] = "/"
        /\ PathTrimmedEmpty =>
               /\ contains_key(last[1].config_map, "root") <=>
                      RootVars \cap NamesSeen # {}
               /\ contains_key(last[1].config_map, "root") =>
                      \E k \in RootVars \cap NamesSeen :
                          last[1].config_map["root"] = EnvValue(k)

\* a map was built for a non-empty path in an environment that sets COS_ROOT
C4_Witness ==
    /\ Called
    /\ last[1].built
    /\ ~PathTrimmedEmpty
    /\ "COS_ROOT" \in NamesSeen

\* C5: a URL whose host is absent or empty fails with the bucket error, also
\* when the endpoint is missing too, and no configuration map is built for
\* it; a map that is built has a non-empty bucket.
C5_BucketRequired ==
    Called =>
        /\ ~HostGiven =>
               /\ last[1].error = MissingBucket
               /\ ~last[1].built
               /\ ~last[1].handed
        /\ last[1].built =>
               /\ contains_key(last[1].config_map, "bucket")
               /\ last[1].config_map["bucket"] # ""
        /\ last[1].error = MissingBucket => ~HostGiven

\* a URL with an empty host, and no endpoint from any source: the bucket
\* error is the one reported
C5_Witness ==
    /\ Called
    /\ last[1].url.authority = {""}
    /\ "cos_endpoint" \notin DOMAIN last[1].storage_options
    /\ EndpointVars \cap DOMAIN env = {}
    /\ last[1].error = MissingBucket

\* C6: every configuration map new_store builds, and so every one handed to
\* the transport factory, has "disable_config_load" = "false".
C6_ConfigLoadForced ==
    Called /\ last[1].built =>
        /\ contains_key(last[1].config_map, "disable_config_load")
        /\ last[1].config_map["disable_config_load"] = "false"

\* a map was handed to the factory although the environment sets
\* COS_DISABLE_CONFIG_LOAD=true and the caller cos_disable_config_load
C6_Witness ==
    /\ Called
    /\ last[1].handed
    /\ "COS_DISABLE_CONFIG_LOAD" \in NamesSeen
    /\ last[1].env_config["disable_config_load"] = "true"
    /\ "cos_disable_config_load" \in DOMAIN last[1].storage_options

\* C7: when new_store succeeds the path of the output URL ends with "/"; a
\* path that ended with "/" is unchanged, any other has one "/" appended,
\* and normalizing the output again changes nothing.
C7_PathEndsWithSeparator ==
    Called /\ last[1].error = "" =>
        /\ ends_with(last[1].url_path, "/")
        /\ IF ends_with(last[1].url.path, "/")
           THEN last[1].url_path = last[1].url.path
           ELSE last[1].url_path = last[1].url.path \o "/"
        /\ normalize_path(last[1].url_path) = last[1].url_path

\* a call succeeded on a path that did not end with "/"
C7_Witness ==
    /\ Called
    /\ last[1].error = ""
    /\ ~ends_with(last[1].url.path, "/")
    /\ last[1].url.path # ""

\* the environment or the storage options of the call just made supply an
\* endpoint
SuppliedNow ==
    \/ "cos_endpoint" \in DOMAIN last'[1].storage_options
    \/ EndpointVars \cap DOMAIN env # {}

\* C8: every call reads the environment as it is at that call: the pairs it
\* sees are the environment's, and with a valid host it fails with the
\* endpoint error exactly when neither that environment nor the storage
\* options supply an endpoint, whatever an earlier call saw.
C8_EnvReadAtEachCall ==
    [][ env' = env /\ last'[1].built =>
          /\ { last'[1].env_seen[i] : i \in DOMAIN last'[1].env_seen } =
                 { <<k, env[k]>> : k \in DOMAIN env }
          /\ last'[1].error = MissingEndpoint <=> ~SuppliedNow ]_vars

\* a call passed the endpoint check with the URL and the (empty) storage
\* options an earlier call failed it with
C8_Witness ==
    /\ Called
    /\ before = {MissingEndpoint}
    /\ DOMAIN last[1].storage_options = {}
    /\ last[1].handed

HasPrefix(k) == starts_with(k, "COS_") \/ starts_with(k, "TENCENTCLOUD_")

\* the name without its leading prefix, lowercased
StrippedKey(k) ==
    IF starts_with(k, "COS_")
    THEN to_lowercase(SubSeq(k, Len("COS_") + 1, Len(k)))
    ELSE to_lowercase(SubSeq(k, Len("TENCENTCLOUD_") + 1, Len(k)))

\* C10 as stated: the keys the environment contributes are the names that
\* start with COS_ or TENCENTCLOUD_, each with that prefix stripped and the
\* rest lowercased and otherwise unaltered, and a variable that is alone in
\* giving its key gives it its value.
C10_PrefixStripped ==
    Called /\ last[1].built =>
        /\ DOMAIN last[1].env_config =
               { StrippedKey(k) : k \in { n \in NamesSeen : HasPrefix(n) } }
        /\ \A i \in DOMAIN last[1].env_seen :
               LET k == last[1].env_seen[i][1]
                   v == last[1].env_seen[i][2]
                   alone == \A n \in NamesSeen \ {k} :
                                HasPrefix(n) => StrippedKey(n) # StrippedKey(k)
               IN  (HasPrefix(k) /\ alone) =>
                       /\ StrippedKey(k) \in DOMAIN last[1].env_config
                       /\ last[1].env_config[StrippedKey(k)] = v

====
